---- MODULE Spec2Model ----
(***************************************************************************)
(* Personal expense tracker: the loan ledger (server/postgres-storage.ts,  *)
(* class LoanStorage, behind the routes of server/routes.ts) and the       *)
(* device access controller (server/auth.ts, server/auth-storage.ts and    *)
(* the environment-variable implementation of the same module).            *)
(*                                                                         *)
(* Every Supabase call is one step: it is the only place where a handler   *)
(* suspends, so two requests interleave exactly at these calls.  Each call *)
(* has a failing twin (the `error` branch of the code).                    *)
(***************************************************************************)
EXTENDS Integers, Sequences, FiniteSets, TLC

\* ---------------------------------------------------------------- bounds
MaxAmount == 2
MaxLoans == 1
MaxPayments == 2
MaxTokens == 2
MaxTime == 1
MaxPending == 2
MaxTransactions == 3
MaxPeriods == 6

LoanIds == 1..MaxLoans
PayIds == 1..MaxPayments
\* two request handlers can be in flight at once
Reqs == {"r1", "r2"}
Amounts == 1..MaxAmount

Max(a, b) == IF a >= b THEN a ELSE b

\* ------------------------------------------------------------ ledger data
LoanStatus == {"active", "completed", "defaulted"}
PaymentType == {"payment", "interest"}

\* a missing row of the loans table
NoLoan == [amount |-> 0, remaining |-> 0, status |-> "none", completedAt |-> FALSE]
\* a missing row of the loan_payments table
NoPayment == [loan |-> 0, amount |-> 0, type |-> "none"]

\* the locals of one request handler; pc is its position in the code
IdleReq ==
    [op |-> "none", pc |-> "idle", loan |-> 0, pay |-> 0, amount |-> 0,
     type |-> "none", change |-> 0, read |-> 0, wrote |-> FALSE,
     adjust |-> "none", result |-> "none"]

\* nothing logged
NoOp == [op |-> "none", pay |-> 0, before |-> 0]

VARIABLES
    loans,      \* table loans: LoanIds -> row or NoLoan
    payments,   \* table loan_payments: PayIds -> row or NoPayment
    nextLoan,   \* ids handed out by randomUUID() for loans so far
    nextPay,    \* ids handed out by randomUUID() for payments so far
    req,        \* the request handlers in flight, and what each last returned
    last        \* the reconciliation that completed last, if no other
                \* mutation completed since: operation, payment, value read

ledgerVars == <<loans, payments, nextLoan, nextPay, req, last>>

\* -------------------------------------------------------------- auth data
Devices == {"D1", "D2"}
TokenIds == 1..MaxTokens
\* `token` is null: no Authorization: Bearer header, or no token in the body
NoToken == 0

\* ------------------------------------------------------- browser fingerprint
\* the browsers of the family; texts are sequences of character codes
Browsers == {"phone", "laptop", "operaMini"}

\* navigator.userAgent
UserAgent(b) ==
    IF b = "phone"
    THEN \* Mozilla/5.0 (iPhone; CPU iPhone OS 17_0 like Mac OS X)
         <<77, 111, 122, 105, 108, 108, 97, 47, 53, 46, 48, 32, 40, 105, 80, 104,
           111, 110, 101, 59, 32, 67, 80, 85, 32, 105, 80, 104, 111, 110, 101, 32,
           79, 83, 32, 49, 55, 95, 48, 32, 108, 105, 107, 101, 32, 77, 97, 99,
           32, 79, 83, 32, 88, 41>>
    ELSE IF b = "laptop"
    THEN \* Mozilla/5.0 (Windows NT 10.0; Win64; x64)
         <<77, 111, 122, 105, 108, 108, 97, 47, 53, 46, 48, 32, 40, 87, 105, 110,
           100, 111, 119, 115, 32, 78, 84, 32, 49, 48, 46, 48, 59, 32, 87, 105,
           110, 54, 52, 59, 32, 120, 54, 52, 41>>
    ELSE \* Opera/9.80 (Android; Opera Mini/36.2)
         <<79, 112, 101, 114, 97, 47, 57, 46, 56, 48, 32, 40, 65, 110, 100, 114,
           111, 105, 100, 59, 32, 79, 112, 101, 114, 97, 32, 77, 105, 110, 105, 47,
           51, 54, 46, 50, 41>>

\* navigator.language
Language(b) ==
    IF b = "phone"
    THEN \* en-US
         <<101, 110, 45, 85, 83>>
    ELSE IF b = "laptop"
    THEN \* en-GB
         <<101, 110, 45, 71, 66>>
    ELSE \* en-US
         <<101, 110, 45, 85, 83>>

\* `${screen.width}x${screen.height}x${screen.colorDepth}`
Screen(b) ==
    IF b = "phone"
    THEN \* 390x844x24
         <<51, 57, 48, 120, 56, 52, 52, 120, 50, 52>>
    ELSE IF b = "laptop"
    THEN \* 1920x1080x24
         <<49, 57, 50, 48, 120, 49, 48, 56, 48, 120, 50, 52>>
    ELSE \* 360x640x24
         <<51, 54, 48, 120, 54, 52, 48, 120, 50, 52>>

\* Intl.DateTimeFormat().resolvedOptions().timeZone: Asia/Karachi
TimeZone == <<65, 115, 105, 97, 47, 75, 97, 114, 97, 99, 104, 105>>


\* the decimal digits of a number, as character codes
RECURSIVE Digits(_)
Digits(n) == IF n < 10 THEN <<48 + n>> ELSE Digits(n \div 10) \o <<48 + (n % 10)>>

\* the deviceInfo object of generateDeviceFingerprint, at Date.now() = at
DeviceInfo(b, at) ==
    [userAgent |-> UserAgent(b), language |-> Language(b), timezone |-> TimeZone,
     screen |-> Screen(b), timestamp |-> at]

\* JSON.stringify(deviceInfo): the keys in the order of the object literal
JsonStringify(deviceInfo) ==
    \* {"userAgent":"
    <<123, 34, 117, 115, 101, 114, 65, 103, 101, 110, 116, 34, 58, 34>>
    \o deviceInfo.userAgent
    \* ","language":"
    \o <<34, 44, 34, 108, 97, 110, 103, 117, 97, 103, 101, 34, 58, 34>>
    \o deviceInfo.language
    \* ","timezone":"
    \o <<34, 44, 34, 116, 105, 109, 101, 122, 111, 110, 101, 34, 58, 34>>
    \o deviceInfo.timezone
    \* ","screen":"
    \o <<34, 44, 34, 115, 99, 114, 101, 101, 110, 34, 58, 34>>
    \o deviceInfo.screen
    \* ","timestamp": and the closing brace
    \o <<34, 44, 34, 116, 105, 109, 101, 115, 116, 97, 109, 112, 34, 58>>
    \o Digits(deviceInfo.timestamp) \o <<125>>

\* btoa: three bytes become four base64 digits; a digit is written as its
\* value 0..63, and the padding character as 64
RECURSIVE Btoa(_)
Btoa(bytes) ==
    IF Len(bytes) = 0 THEN <<>>
    ELSE IF Len(bytes) = 1
    THEN <<bytes[1] \div 4, (bytes[1] % 4) * 16, 64, 64>>
    ELSE IF Len(bytes) = 2
    THEN <<bytes[1] \div 4, (bytes[1] % 4) * 16 + bytes[2] \div 16,
           (bytes[2] % 16) * 4, 64>>
    ELSE <<bytes[1] \div 4, (bytes[1] % 4) * 16 + bytes[2] \div 16,
           (bytes[2] % 16) * 4 + bytes[3] \div 64, bytes[3] % 64>>
         \o Btoa(SubSeq(bytes, 4, Len(bytes)))

\* String.prototype.slice(0, end)
Slice(s, end) == SubSeq(s, 1, IF Len(s) < end THEN Len(s) ELSE end)

\* generateDeviceFingerprint: btoa(JSON.stringify(deviceInfo)).slice(0, 32)
FingerprintLength == 32
GenerateDeviceFingerprint(b, at) ==
    Slice(Btoa(JsonStringify(DeviceInfo(b, at))), FingerprintLength)

\* the fingerprints the browsers can send, and the value of the device_id
\* column that stands for each: different fingerprints get different values
Fingerprints ==
    {GenerateDeviceFingerprint(b, at) : b \in Browsers, at \in 0..MaxPeriods}
DeviceKeys ==
    CHOOSE f \in [Fingerprints -> Devices] :
        \A x, y \in Fingerprints : f[x] = f[y] => x = y
DeviceIdOf(b, at) == DeviceKeys[GenerateDeviceFingerprint(b, at)]

\* the retention period of the sweep the routes start (90 days): the unit in
\* which `now` counts
RetentionDays == 1

\* a string that generateDeviceToken never returned
Forged == -1

\* a missing row of the device_tokens table
NoRow == [exists |-> FALSE, device |-> "", active |-> FALSE, lastSeen |-> 0]
\* a device id absent from EXPENSE_TRACKER_REGISTERED_DEVICES
NoDevice == [registered |-> FALSE, lastSeen |-> 0]
\* nothing answered yet
NoEvent == [ev |-> "none", token |-> NoToken, device |-> "", path |-> "", ok |-> FALSE,
            count |-> 0, listed |-> {}]

VARIABLES
    impl,              \* which auth module serves ./auth.js: "db" is
                       \* server/auth.ts over auth-storage.ts, "env" is the
                       \* module that keeps its lists in process.env
    masterPassword,    \* EXPENSE_TRACKER_MASTER_PASSWORD: "" when not set
    deviceTokens,      \* db: table device_tokens, TokenIds -> row or NoRow
    approvedTokens,    \* env: EXPENSE_TRACKER_DEVICE_TOKENS
    registeredDevices, \* env: EXPENSE_TRACKER_REGISTERED_DEVICES
    pending,           \* db: the promises the routes started and did not await
    nextToken,         \* tokens generateDeviceToken has returned so far
    now,               \* Date.now()
    issued,            \* the tokens clients hold: token -> device it was sent to
    lastEvent,         \* what the last step answered or completed
    revokedTokens      \* tokens already issued to a device when a revocation
                       \* of that device completed

authVars == <<impl, masterPassword, deviceTokens, approvedTokens, registeredDevices,
              pending, nextToken, now, issued, lastEvent, revokedTokens>>

\* -------------------------------------------------------- transaction data
TxIds == 1..MaxTransactions
TxTypes == {"income", "expense"}

\* what stands behind `storage`: the transactions table of Supabase, the
\* Vercel KV entry, or the in-memory list of LocalCSVStorage
Backends == {"supabase", "kv", "local"}

\* a field left out of a request body
AbsentStr == "none"
AbsentNum == -1

\* transaction dates, as day numbers
Dates == 0..MaxTime

\* the calendar: a date "YYYY-MM-DD" is the number YYYYMMDD, whose order is
\* the order of the strings
FirstYear == 2023
Years == FirstYear..(FirstYear + MaxTime)
DateOf(y, m, d) == y * 10000 + m * 100 + d
YearOf(date) == date \div 10000
MonthOf(date) == (date \div 100) % 100
DayOf(date) == date % 100

IsLeapYear(y) == y % 4 = 0 /\ (y % 100 # 0 \/ y % 400 = 0)

DaysInMonth(y, m) ==
    IF m = 2 THEN (IF IsLeapYear(y) THEN 29 ELSE 28)
    ELSE IF m \in {4, 6, 9, 11} THEN 30 ELSE 31

\* the days the client's clock can show
Days ==
    {DateOf(y, m, d) : y \in Years, m \in 1..12, d \in 1..31} \cap
    {date \in FirstYear * 10000..(FirstYear + MaxTime + 1) * 10000 :
        DayOf(date) \in 1..DaysInMonth(YearOf(date), MonthOf(date))}

VARIABLES
    \* the stored transactions, in insertion order
    transactions,
    \* TransactionProvider: the `transactions` state of the client
    clientTransactions,
    \* ids handed out so far
    nextTx,
    \* history: the last transaction operation that completed
    txOp,
    \* history: the HTTP status of its response
    txStatus,
    \* the store that `storage` currently points to
    backend,
    \* new Date() in the client, as the number YYYYMMDD
    today,
    \* loadTransactions in flight: the list the server answered with
    loadData,
    \* addTransaction in flight: the record the server answered with
    addReply,
    \* AuthProvider: whether the provider is mounted, its isAuthenticated
    \* state, and the isAuthenticated that the callback of setInterval sees
    mounted,
    isAuthenticated,
    intervalIsAuthenticated,
    \* localStorage: whether a device token is stored, and lastVerified
    storedAuth,
    \* whether the server holds the stored token valid
    serverValid,
    \* Date.now() in the browser, in validation periods of 5 minutes
    clientNow,
    \* localStorage of each browser: the device token it stored
    browserToken

\* the browser's session
sessionVars ==
    <<mounted, isAuthenticated, intervalIsAuthenticated, storedAuth, serverValid, clientNow>>

\* the client's clock, its requests in flight and its session
clientVars == <<browserToken, today, loadData, addReply, sessionVars>>

txVars == <<transactions, clientTransactions, nextTx, txOp, txStatus, backend, clientVars>>


Free(r) == req[r].pc \in {"idle", "done"}
Quiescent == \A r \in Reqs : Free(r)

\* insertLoanSchema / insertLoanPaymentSchema: amount is z.number().positive()
ValidAmount(a) == a > 0

\* ------------------------------------------------- updateLoanRemainingAmount
\* the sum without Math.max(0, ...)
NewRemainingAmount_Unclamped(remaining, amountChange) == remaining + amountChange

NewRemainingAmount(remaining, amountChange) == Max(0, remaining + amountChange)

\* updateLoanRemainingAmount without its `else if` branch: a loan paid off
\* stays completed when its last payment is deleted
AdjustedLoan_NoReactivation(row, readRemaining, amountChange) ==
    LET new == NewRemainingAmount(readRemaining, amountChange) IN
    IF new = 0
    THEN [row EXCEPT !.remaining = new, !.status = "completed", !.completedAt = TRUE]
    ELSE [row EXCEPT !.remaining = new]

\* the row after `update(updateData)`, updateData built from the value read
AdjustedLoan(row, readRemaining, amountChange) ==
    LET new == NewRemainingAmount(readRemaining, amountChange) IN
    IF new = 0
    THEN [row EXCEPT !.remaining = new, !.status = "completed", !.completedAt = TRUE]
    ELSE IF readRemaining = 0 /\ new > 0
         THEN [row EXCEPT !.remaining = new, !.status = "active", !.completedAt = FALSE]
         ELSE [row EXCEPT !.remaining = new]

\* the handler returns: what it did and answered stays readable
Done(r, fields) ==
    req' = [req EXCEPT ![r] = fields @@ [IdleReq EXCEPT !.pc = "done", !.op = req[r].op,
                                          !.loan = req[r].loan, !.pay = req[r].pay,
                                          !.type = req[r].type, !.wrote = req[r].wrote]]

\* the read as it would be behind a per-loan lock: it waits while another
\* request is between its read and its write of the same loan
AdjRead_Locked(r) ==
    /\ req[r].pc = "adj_read"
    /\ loans[req[r].loan] # NoLoan
    /\ \A o \in Reqs \ {r} : ~(req[o].pc = "adj_write" /\ req[o].loan = req[r].loan)
    /\ req' = [req EXCEPT ![r].pc = "adj_write",
                          ![r].read = loans[req[r].loan].remaining]
    /\ UNCHANGED <<txVars, authVars, loans, payments, nextLoan, nextPay, last>>

\* select remaining_amount ... .single() succeeded
AdjRead(r) ==
    /\ req[r].pc = "adj_read"
    /\ loans[req[r].loan] # NoLoan
    /\ req' = [req EXCEPT ![r].pc = "adj_write",
                          ![r].read = loans[req[r].loan].remaining]
    /\ UNCHANGED <<txVars, authVars, loans, payments, nextLoan, nextPay, last>>

\* fetchError (also: no such row): logged, `return`, the caller carries on
AdjReadFail(r) ==
    /\ req[r].pc = "adj_read"
    /\ Done(r, [adjust |-> "failed", result |-> "ok"])
    /\ last' = NoOp
    /\ UNCHANGED <<txVars, authVars, loans, payments, nextLoan, nextPay>>

\* update(updateData).eq('id', loanId) succeeded (a missing row matches nothing)
AdjWrite(r) ==
    /\ req[r].pc = "adj_write"
    /\ LET l == req[r].loan IN
       loans' = IF loans[l] = NoLoan THEN loans
                ELSE [loans EXCEPT ![l] = AdjustedLoan(@, req[r].read, req[r].change)]
    /\ Done(r, [adjust |-> "ok", result |-> "ok"])
    /\ last' = [op |-> req[r].op, pay |-> req[r].pay, before |-> req[r].read]
    /\ UNCHANGED <<txVars, authVars, payments, nextLoan, nextPay>>

\* the update's error is logged and nothing else
AdjWriteFail(r) ==
    /\ req[r].pc = "adj_write"
    /\ Done(r, [adjust |-> "failed", result |-> "ok"])
    /\ last' = NoOp
    /\ UNCHANGED <<txVars, authVars, loans, payments, nextLoan, nextPay>>

\* ----------------------------------------------------------------- addLoan
\* POST /api/loans: remainingAmount is required by the schema (min 0), the
\* storage keeps it only when it is strictly positive
NewLoan(amount, remainingAmount, status) ==
    [amount |-> amount,
     remaining |-> IF remainingAmount > 0 THEN remainingAmount ELSE amount,
     status |-> status,
     completedAt |-> FALSE]

AddLoan(r, amount, remainingAmount, status) ==
    /\ Free(r)
    /\ ValidAmount(amount)
    /\ nextLoan < MaxLoans
    /\ nextLoan' = nextLoan + 1
    /\ loans' = [loans EXCEPT ![nextLoan + 1] = NewLoan(amount, remainingAmount, status)]
    /\ req' = [req EXCEPT ![r] = [IdleReq EXCEPT !.op = "addLoan", !.pc = "done",
                                   !.loan = nextLoan + 1, !.wrote = TRUE,
                                   !.result = "ok"]]
    /\ last' = NoOp
    /\ UNCHANGED <<txVars, authVars, payments, nextPay>>

\* schema rejection (amount not positive) or insert error: nothing stored
AddLoanFail(r) ==
    /\ Free(r)
    /\ req' = [req EXCEPT ![r] = [IdleReq EXCEPT !.op = "addLoan", !.pc = "done",
                                   !.result = "error"]]
    /\ last' = NoOp
    /\ UNCHANGED <<txVars, authVars, loans, payments, nextLoan, nextPay>>

\* -------------------------------------------------------------- updateLoan
\* PUT /api/loans/:id with insertLoanSchema.partial(): a field equal to -1
\* (amount, remainingAmount) or "none" (status) is absent from the payload
UpdatedLoan(row, amount, remainingAmount, status) ==
    [row EXCEPT !.amount = IF amount # -1 THEN amount ELSE @,
                !.remaining = IF remainingAmount # -1 THEN remainingAmount ELSE @,
                !.status = IF status # "none" THEN status ELSE @]

UpdateLoan(r, l, amount, remainingAmount, status) ==
    /\ Free(r)
    /\ amount = -1 \/ ValidAmount(amount)
    /\ loans[l] # NoLoan
    /\ loans' = [loans EXCEPT ![l] = UpdatedLoan(@, amount, remainingAmount, status)]
    /\ req' = [req EXCEPT ![r] = [IdleReq EXCEPT !.op = "updateLoan", !.pc = "done",
                                   !.loan = l, !.wrote = TRUE, !.result = "ok"]]
    /\ last' = NoOp
    /\ UNCHANGED <<txVars, authVars, payments, nextLoan, nextPay>>

\* PGRST116 (no row: 404) or any other error (400): nothing stored
UpdateLoanFail(r, l) ==
    /\ Free(r)
    /\ req' = [req EXCEPT ![r] = [IdleReq EXCEPT !.op = "updateLoan", !.pc = "done",
                                   !.loan = l,
                                   !.result = IF loans[l] = NoLoan THEN "notfound"
                                              ELSE "error"]]
    /\ last' = NoOp
    /\ UNCHANGED <<txVars, authVars, loans, payments, nextLoan, nextPay>>

\* ---------------------------------------------------------- addLoanPayment
\* the guard as it would be without the test of the record's type
AdjustsRemaining_AnyType(type) == TRUE

\* `if (data.type === 'payment')` / `paymentData.type === 'payment'`
AdjustsRemaining(type) == type = "payment"

\* insert(payment) succeeded; loan_id REFERENCES loans(id)
AddLoanPayment(r, l, amount, type) ==
    /\ Free(r)
    /\ ValidAmount(amount)
    /\ loans[l] # NoLoan
    /\ nextPay < MaxPayments
    /\ nextPay' = nextPay + 1
    /\ payments' = [payments EXCEPT ![nextPay + 1] =
                       [loan |-> l, amount |-> amount, type |-> type]]
    /\ LET call == [IdleReq EXCEPT !.op = "addLoanPayment", !.loan = l,
                                   !.pay = nextPay + 1, !.amount = amount,
                                   !.type = type, !.wrote = TRUE] IN
       IF AdjustsRemaining(type)
       THEN /\ req' = [req EXCEPT ![r] = [call EXCEPT !.pc = "adj_read",
                                                      !.change = -amount]]
            /\ last' = last
       ELSE /\ req' = [req EXCEPT ![r] = [call EXCEPT !.pc = "done", !.amount = 0,
                                                      !.result = "ok"]]
            /\ last' = NoOp
    /\ UNCHANGED <<txVars, authVars, loans, nextLoan>>

\* schema rejection, foreign-key violation or insert error: thrown to the route
AddLoanPaymentFail(r, l, type) ==
    /\ Free(r)
    /\ req' = [req EXCEPT ![r] = [IdleReq EXCEPT !.op = "addLoanPayment", !.pc = "done",
                                   !.loan = l, !.type = type, !.result = "error"]]
    /\ last' = NoOp
    /\ UNCHANGED <<txVars, authVars, loans, payments, nextLoan, nextPay>>

\* ------------------------------------------------------- deleteLoanPayment
\* select('*').eq('id', id).single() found the row
DeleteLoanPaymentFetch(r, p) ==
    /\ Free(r)
    /\ payments[p] # NoPayment
    /\ req' = [req EXCEPT ![r] = [IdleReq EXCEPT !.op = "deleteLoanPayment",
                                   !.pc = "del_delete", !.pay = p,
                                   !.loan = payments[p].loan,
                                   !.amount = payments[p].amount,
                                   !.type = payments[p].type]]
    /\ UNCHANGED <<txVars, authVars, loans, payments, nextLoan, nextPay, last>>

\* fetchError (also: no such row): thrown to the route
DeleteLoanPaymentFetchFail(r, p) ==
    /\ Free(r)
    /\ req' = [req EXCEPT ![r] = [IdleReq EXCEPT !.op = "deleteLoanPayment",
                                   !.pc = "done", !.pay = p, !.result = "error"]]
    /\ last' = NoOp
    /\ UNCHANGED <<txVars, authVars, loans, payments, nextLoan, nextPay>>

\* delete().eq('id', id) succeeded (a row already gone matches nothing)
DeleteLoanPaymentDelete(r) ==
    /\ req[r].pc = "del_delete"
    /\ payments' = [payments EXCEPT ![req[r].pay] = NoPayment]
    /\ IF AdjustsRemaining(req[r].type)
       THEN /\ req' = [req EXCEPT ![r].pc = "adj_read", ![r].wrote = TRUE,
                                  ![r].change = req[r].amount]
            /\ last' = last
       ELSE /\ req' = [req EXCEPT ![r] = [IdleReq EXCEPT !.pc = "done",
                                   !.op = req[r].op, !.loan = req[r].loan,
                                   !.pay = req[r].pay, !.type = req[r].type,
                                   !.wrote = TRUE, !.result = "ok"]]
            /\ last' = NoOp
    /\ UNCHANGED <<txVars, authVars, loans, nextLoan, nextPay>>

DeleteLoanPaymentDeleteFail(r) ==
    /\ req[r].pc = "del_delete"
    /\ Done(r, [result |-> "error"])
    /\ last' = NoOp
    /\ UNCHANGED <<txVars, authVars, loans, payments, nextLoan, nextPay>>

\* -------------------------------------------------------------- deleteLoan
\* the rows of loan_payments left by delete().eq('loan_id', loanId)
WithoutPaymentsOf(l) ==
    [p \in PayIds |-> IF payments[p].loan = l THEN NoPayment ELSE payments[p]]

\* deleteLoan without its first call: the loan row is deleted straight away
DeleteLoanPayments_Skipped(r, l) ==
    /\ Free(r)
    /\ req' = [req EXCEPT ![r] = [IdleReq EXCEPT !.op = "deleteLoan", !.pc = "del_loan",
                                   !.loan = l]]
    /\ UNCHANGED <<txVars, authVars, loans, payments, nextLoan, nextPay, last>>

\* deleteLoanPaymentsByLoanId succeeded
DeleteLoanPayments(r, l) ==
    /\ Free(r)
    /\ payments' = WithoutPaymentsOf(l)
    /\ req' = [req EXCEPT ![r] = [IdleReq EXCEPT !.op = "deleteLoan", !.pc = "del_loan",
                                   !.loan = l,
                                   !.wrote = \E p \in PayIds : payments[p].loan = l]]
    /\ UNCHANGED <<txVars, authVars, loans, nextLoan, nextPay, last>>

\* deleteLoanPaymentsByLoanId threw: the loan is not touched
DeleteLoanPaymentsFail(r, l) ==
    /\ Free(r)
    /\ req' = [req EXCEPT ![r] = [IdleReq EXCEPT !.op = "deleteLoan", !.pc = "done",
                                   !.loan = l, !.result = "error"]]
    /\ last' = NoOp
    /\ UNCHANGED <<txVars, authVars, loans, payments, nextLoan, nextPay>>

\* delete().eq('id', id) on loans succeeded; ON DELETE CASCADE takes the
\* payments a concurrent request inserted meanwhile
DeleteLoanRow(r) ==
    /\ req[r].pc = "del_loan"
    /\ loans' = [loans EXCEPT ![req[r].loan] = NoLoan]
    /\ payments' = WithoutPaymentsOf(req[r].loan)
    /\ req' = [req EXCEPT ![r] = [IdleReq EXCEPT !.pc = "done", !.op = req[r].op,
                                   !.loan = req[r].loan, !.wrote = TRUE,
                                   !.result = "ok"]]
    /\ last' = NoOp
    /\ UNCHANGED <<txVars, authVars, nextLoan, nextPay>>

DeleteLoanRowFail(r) ==
    /\ req[r].pc = "del_loan"
    /\ Done(r, [result |-> "error"])
    /\ last' = NoOp
    /\ UNCHANGED <<txVars, authVars, loans, payments, nextLoan, nextPay>>

\* ================================================== device access control
\* getMasterPassword under a configuration: it throws when the variable is unset
GetMasterPassword(configured) == IF configured = "" THEN "throws" ELSE "returns"

\* verifyMasterPassword without its try/catch: the throw reaches the route
VerifyMasterPasswordIn_Uncaught(configured, password) ==
    IF GetMasterPassword(configured) = "throws" THEN "throws"
    ELSE IF password = configured THEN "true" ELSE "false"

\* verifyMasterPassword under a configuration: the throw is caught and logged
VerifyMasterPasswordIn(configured, password) ==
    IF GetMasterPassword(configured) = "throws" THEN "false"
    ELSE IF password = configured THEN "true" ELSE "false"

VerifyMasterPassword(password) == VerifyMasterPasswordIn(masterPassword, password) = "true"

\* POST /api/auth/master-password: status and message of the answer
MasterPasswordResponseIn(configured, password, device) ==
    IF password = "" THEN "400 Password is required"
    ELSE IF device = "" THEN "400 Device information is required"
    ELSE LET isValidPassword == VerifyMasterPasswordIn(configured, password) IN
         IF isValidPassword = "throws" THEN "500 Authentication failed"
         ELSE IF isValidPassword = "false" THEN "401 Invalid master password"
         ELSE "200 success"

\* what validateDeviceToken answers once its lookup has completed
ValidateDeviceToken(token) ==
    IF impl = "db"
    THEN token \in TokenIds /\ deviceTokens[token].exists /\ deviceTokens[token].active
    ELSE token \in approvedTokens

\* what the call validateDeviceToken(token) evaluates to in routes.ts, which
\* does not await it: the async function of server/auth.ts returns a Promise
ValidateDeviceTokenCall(token) ==
    IF impl = "db" THEN "promise"
    ELSE IF ValidateDeviceToken(token) THEN "true" ELSE "false"

\* JavaScript truthiness of that value: any object is truthy
Truthy(v) == v \in {"promise", "true"}

Event(ev, token, device, path, ok) ==
    [ev |-> ev, token |-> token, device |-> device, path |-> path, ok |-> ok,
     count |-> 0, listed |-> {}]

\* AuthStorage.validateDeviceToken resolves: false on any error of the lookup
ValidateDeviceTokenResolves(token, lookupFails) ==
    /\ impl = "db"
    /\ lastEvent' = Event(IF lookupFails THEN "lookup_failed" ELSE "lookup", token, "", "",
                          ~lookupFails /\ ValidateDeviceToken(token))
    /\ UNCHANGED <<txVars, ledgerVars, impl, masterPassword, deviceTokens, approvedTokens,
                   registeredDevices, pending, nextToken, now, issued, revokedTokens>>

\* starting a promise of server/auth.ts that nobody awaits
Start(op, token, device) == pending \cup {[op |-> op, token |-> token, device |-> device]}
CanStart == Cardinality(pending) < MaxPending

IssuedTo(device) == {t \in TokenIds : issued[t] = device}

\* env: the device is in getRegisteredDevices()
IsRegistered(device) == device \in Devices /\ registeredDevices[device].registered

\* env: updateDeviceLastSeen
TouchedDevices(device) ==
    IF IsRegistered(device)
    THEN [registeredDevices EXCEPT ![device].lastSeen = now]
    ELSE registeredDevices

\* updateDeviceLastSeen(deviceId) as the routes call it
UpdateDeviceLastSeenCall(called, device) ==
    IF ~called THEN UNCHANGED <<pending, registeredDevices>>
    ELSE IF impl = "db"
         THEN /\ pending' = Start("lastSeen", NoToken, device)
              /\ UNCHANGED registeredDevices
         ELSE /\ registeredDevices' = TouchedDevices(device)
              /\ UNCHANGED pending

\* POST /api/auth/master-password, as far as the server is concerned
MasterPasswordAuthAnswer(password, device) ==
    /\ MasterPasswordResponseIn(masterPassword, password, device) = "200 success"
    /\ VerifyMasterPassword(password)
    /\ nextToken < MaxTokens
    /\ impl = "db" => CanStart
    /\ LET token == nextToken + 1 IN
       /\ nextToken' = token
       /\ IF impl = "db"
          THEN /\ pending' = Start("store", token, device)
               /\ UNCHANGED <<approvedTokens, registeredDevices>>
          ELSE /\ approvedTokens' = approvedTokens \cup {token}
               /\ registeredDevices' =
                     [registeredDevices EXCEPT ![device] =
                         [registered |-> TRUE, lastSeen |-> now]]
               /\ UNCHANGED pending
       /\ issued' = [issued EXCEPT ![token] = device]
       /\ lastEvent' = Event("auth_ok", token, device, "", TRUE)
    /\ UNCHANGED <<ledgerVars, impl, masterPassword, deviceTokens, now, revokedTokens>>

\* POST /api/auth/master-password
MasterPasswordAuth(password, device) ==
    /\ MasterPasswordAuthAnswer(password, device)
    /\ UNCHANGED txVars

\* authenticateWithPassword of the client in browser b: the device id it sends
\* is its fingerprint, and storeDeviceToken keeps the token of the answer
AuthenticateWithPassword(b) ==
    /\ MasterPasswordAuthAnswer("secret", DeviceIdOf(b, clientNow))
    /\ browserToken' = [browserToken EXCEPT ![b] = nextToken + 1]
    /\ UNCHANGED <<transactions, clientTransactions, nextTx, txOp, txStatus, backend, today,
                   loadData, addReply, sessionVars>>

\* the same route answering 400 (a field is missing), 401 (wrong password) or
\* 500 (something threw)
MasterPasswordAuthRejected(password, device) ==
    /\ MasterPasswordResponseIn(masterPassword, password, device) # "200 success"
    /\ lastEvent' = Event(MasterPasswordResponseIn(masterPassword, password, device),
                          NoToken, device, "", FALSE)
    /\ UNCHANGED <<txVars, ledgerVars, impl, masterPassword, deviceTokens, approvedTokens,
                   registeredDevices, pending, nextToken, now, issued, revokedTokens>>

\* POST /api/auth/validate-device
ValidateDevice(token, device) ==
    /\ impl = "db" => CanStart
    /\ IF token = NoToken
       THEN /\ lastEvent' = Event("validate", token, device, "", FALSE)
            /\ UNCHANGED <<pending, registeredDevices>>
       ELSE LET isValid == ValidateDeviceTokenCall(token) IN
            /\ UpdateDeviceLastSeenCall(Truthy(isValid) /\ device # "", device)
            /\ lastEvent' = Event("validate", token, device, "", Truthy(isValid))
    /\ UNCHANGED <<txVars, ledgerVars, impl, masterPassword, deviceTokens, approvedTokens,
                   nextToken, now, issued, revokedTokens>>

\* requireAuth: the paths it lets through without a token
AuthPaths == {"/api/auth/validate-device", "/api/auth/master-password",
              "/api/auth/devices", "/api/auth/revoke-device"}
\* the kinds of path a request to /api can carry
ApiPaths == {"/api/auth/devices", "/api/health", "/api/loans"}
SkipsAuth(path) == path \in AuthPaths \/ path = "/api/health" \/ path = "/debug"

\* requireAuth calls next()
PassesGate(path, token) ==
    \/ SkipsAuth(path)
    \/ token # NoToken /\ Truthy(ValidateDeviceTokenCall(token))

\* app.use('/api', requireAuth) on one request
RequireAuth(path, token, device) ==
    /\ impl = "db" => CanStart
    /\ UpdateDeviceLastSeenCall(~SkipsAuth(path) /\ PassesGate(path, token) /\ device # "",
                                device)
    /\ lastEvent' = Event("gate", token, device, path, PassesGate(path, token))
    /\ UNCHANGED <<txVars, ledgerVars, impl, masterPassword, deviceTokens, approvedTokens,
                   nextToken, now, issued, revokedTokens>>

\* POST /api/auth/revoke-device over server/auth.ts: `success` is a Promise
RevokeDeviceStart(device) ==
    /\ impl = "db" /\ device # ""
    /\ CanStart
    /\ pending' = Start("revoke", NoToken, device)
    /\ lastEvent' = Event("revoke_answered", NoToken, device, "", TRUE)
    /\ UNCHANGED <<txVars, ledgerVars, impl, masterPassword, deviceTokens, approvedTokens,
                   registeredDevices, nextToken, now, issued, revokedTokens>>

\* POST /api/auth/revoke-device over the process.env module: the device record
\* is spliced out, the approved token list is left as it is
RevokeDeviceEnv(device) ==
    /\ impl = "env" /\ device # ""
    /\ IsRegistered(device)
    /\ registeredDevices' = [registeredDevices EXCEPT ![device] = NoDevice]
    /\ revokedTokens' = revokedTokens \cup IssuedTo(device)
    /\ lastEvent' = Event("revoked", NoToken, device, "", TRUE)
    /\ UNCHANGED <<txVars, ledgerVars, impl, masterPassword, deviceTokens, approvedTokens,
                   pending, nextToken, now, issued>>

\* the same route answering 400 (no device id) or 404 (env: unknown device)
RevokeDeviceRejected(device) ==
    /\ device = "" \/ (impl = "env" /\ ~IsRegistered(device))
    /\ lastEvent' = Event("revoke_rejected", NoToken, device, "", FALSE)
    /\ UNCHANGED <<txVars, ledgerVars, impl, masterPassword, deviceTokens, approvedTokens,
                   registeredDevices, pending, nextToken, now, issued, revokedTokens>>

\* AuthStorage.storeDeviceToken: the upsert keyed by token succeeded
StoreDeviceToken(p) ==
    /\ p \in pending /\ p.op = "store"
    /\ deviceTokens' = [deviceTokens EXCEPT ![p.token] =
                           [exists |-> TRUE, device |-> p.device, active |-> TRUE,
                            lastSeen |-> now]]
    /\ pending' = pending \ {p}
    /\ lastEvent' = Event("stored", p.token, p.device, "", TRUE)
    /\ UNCHANGED <<txVars, ledgerVars, impl, masterPassword, approvedTokens, registeredDevices,
                   nextToken, now, issued, revokedTokens>>

\* AuthStorage.revokeDevice: update({is_active: false}).eq('device_id', deviceId)
RevokedRows(device) ==
    [t \in TokenIds |->
        IF deviceTokens[t].exists /\ deviceTokens[t].device = device
        THEN [deviceTokens[t] EXCEPT !.active = FALSE]
        ELSE deviceTokens[t]]

RevokeDevice(p) ==
    /\ p \in pending /\ p.op = "revoke"
    /\ deviceTokens' = RevokedRows(p.device)
    /\ pending' = pending \ {p}
    /\ revokedTokens' = revokedTokens \cup IssuedTo(p.device)
    /\ lastEvent' = Event("revoked", NoToken, p.device, "", TRUE)
    /\ UNCHANGED <<txVars, ledgerVars, impl, masterPassword, approvedTokens, registeredDevices,
                   nextToken, now, issued>>

\* a last-seen refresh that writes the whole row of the device back as active
SeenRows_Reactivating(device) ==
    [t \in TokenIds |->
        IF deviceTokens[t].exists /\ deviceTokens[t].device = device
        THEN [deviceTokens[t] EXCEPT !.lastSeen = now, !.active = TRUE]
        ELSE deviceTokens[t]]

\* update({last_seen}).eq('device_id', deviceId).eq('is_active', true)
SeenRows(device) ==
    [t \in TokenIds |->
        IF deviceTokens[t].exists /\ deviceTokens[t].device = device
           /\ deviceTokens[t].active
        THEN [deviceTokens[t] EXCEPT !.lastSeen = now]
        ELSE deviceTokens[t]]

\* AuthStorage.updateDeviceLastSeen: the active rows of the device
UpdateDeviceLastSeen(p) ==
    /\ p \in pending /\ p.op = "lastSeen"
    /\ deviceTokens' = SeenRows(p.device)
    /\ pending' = pending \ {p}
    /\ lastEvent' = Event("seen", NoToken, p.device, "", TRUE)
    /\ UNCHANGED <<txVars, ledgerVars, impl, masterPassword, approvedTokens, registeredDevices,
                   nextToken, now, issued, revokedTokens>>

\* the store call of a pending promise returned an error: nothing is written
\* (storeDeviceToken rejects, revokeDevice resolves false, the last-seen
\* update logs)
StoreCallFails(p) ==
    /\ p \in pending
    /\ pending' = pending \ {p}
    /\ lastEvent' = Event(IF p.op = "store" THEN "failed" ELSE "call_failed",
                          p.token, p.device, "", FALSE)
    /\ UNCHANGED <<txVars, ledgerVars, impl, masterPassword, deviceTokens, approvedTokens,
                   registeredDevices, nextToken, now, issued, revokedTokens>>

\* ------------------------------------------------------- cleanupOldDevices
\* cutoffDate: now minus daysOld
Cutoff(daysOld) == now - daysOld

\* the sweep without .eq('is_active', true): it also matches rows already
\* inactive
SweptTokens_AnyRow(cutoff) ==
    {t \in TokenIds : deviceTokens[t].exists /\ deviceTokens[t].lastSeen < cutoff}

\* the rows matched by .lt('last_seen', cutoff).eq('is_active', true)
SweptTokens(cutoff) ==
    {t \in TokenIds : /\ deviceTokens[t].exists
                      /\ deviceTokens[t].active
                      /\ deviceTokens[t].lastSeen < cutoff}

\* update({is_active: false}) on those rows
SweptRows(cutoff) ==
    [t \in TokenIds |->
        IF t \in SweptTokens(cutoff)
        THEN [deviceTokens[t] EXCEPT !.active = FALSE]
        ELSE deviceTokens[t]]

\* AuthStorage.cleanupOldDevices(daysOld) is called: the cutoff is fixed
\* before the store call; a sweep's pending record carries it as its token
CleanupOldDevicesStart(daysOld) ==
    /\ impl = "db"
    /\ CanStart
    /\ pending' = Start("cleanup", Cutoff(daysOld), "")
    /\ lastEvent' = Event("cleanup_called", NoToken, "", "", TRUE)
    /\ UNCHANGED <<txVars, ledgerVars, impl, masterPassword, deviceTokens, approvedTokens,
                   registeredDevices, nextToken, now, issued, revokedTokens>>

\* its store call succeeded: it returns the number of rows the update returned
CleanupOldDevices(p) ==
    /\ p \in pending /\ p.op = "cleanup"
    /\ deviceTokens' = SweptRows(p.token)
    /\ pending' = pending \ {p}
    /\ lastEvent' = [Event("cleaned", NoToken, "", "", TRUE)
                         EXCEPT !.count = Cardinality(SweptTokens(p.token))]
    /\ UNCHANGED <<txVars, ledgerVars, impl, masterPassword, approvedTokens, registeredDevices,
                   nextToken, now, issued, revokedTokens>>

\* ----------------------------------------------------- GET /api/auth/devices
\* env: cleanupOldDevices keeps the devices seen after the retention period
KeptDevices ==
    [d \in Devices |->
        IF registeredDevices[d].registered /\ registeredDevices[d].lastSeen > now - RetentionDays
        THEN registeredDevices[d]
        ELSE NoDevice]

\* the fields of an entry of the device list
DeviceListFields == {"id", "name", "lastSeen", "isCurrentDevice", "userAgent"}

\* the devices whose records are active
ActiveDevices ==
    IF impl = "db"
    THEN {deviceTokens[t].device :
             t \in {u \in TokenIds : deviceTokens[u].exists /\ deviceTokens[u].active}}
    ELSE {d \in Devices : registeredDevices[d].registered}

\* over server/auth.ts cleanupOldDevices() and getRegisteredDevices() return
\* Promises: the sweep is left running and devices.map throws, answered 500;
\* over the process.env module the sweep runs and the list is answered
ListDevices ==
    /\ impl = "db" => CanStart
    /\ IF impl = "db"
       THEN /\ pending' = Start("cleanup", Cutoff(RetentionDays), "")
            /\ lastEvent' = Event("devices", NoToken, "", "", FALSE)
            /\ UNCHANGED registeredDevices
       ELSE /\ registeredDevices' = KeptDevices
            /\ lastEvent' = [Event("devices", NoToken, "", "", TRUE)
                                 EXCEPT !.listed = {d \in Devices : KeptDevices[d].registered}]
            /\ UNCHANGED pending
    /\ UNCHANGED <<txVars, ledgerVars, impl, masterPassword, deviceTokens, approvedTokens,
                   nextToken, now, issued, revokedTokens>>

\* time passes
Tick ==
    /\ now < MaxTime
    /\ now' = now + 1
    /\ lastEvent' = NoEvent
    /\ UNCHANGED <<txVars, ledgerVars, impl, masterPassword, deviceTokens, approvedTokens,
                   registeredDevices, pending, nextToken, issued, revokedTokens>>

\* ======================================================== browser session
\* thirtyDaysMs, in validation periods of 5 minutes
ThirtyDays == 8640

\* clearAuthData
NoStoredAuth == [token |-> FALSE, lastVerified |-> 0]

\* isSessionValid: an auth status and a token are stored and lastVerified is
\* not older than 30 days
IsSessionValid(at) ==
    /\ storedAuth.token
    /\ ~((at - storedAuth.lastVerified) > ThirtyDays)

\* checkAuth at time `at`: the session is checked locally, then the token
\* with the server; an invalid token clears the stored auth data
CheckAuth(at) ==
    IF ~IsSessionValid(at)
    THEN /\ isAuthenticated' = FALSE
         /\ UNCHANGED storedAuth
    ELSE IF serverValid
    THEN /\ isAuthenticated' = TRUE
         /\ storedAuth' = [storedAuth EXCEPT !.lastVerified = at]
    ELSE /\ isAuthenticated' = FALSE
         /\ storedAuth' = NoStoredAuth

\* the effect of AuthProvider, run once after the first render (its
\* dependency list is []): checkAuth is called and the interval is set up
\* with a callback that closes over the isAuthenticated of that render
AuthMount ==
    /\ ~mounted
    /\ mounted' = TRUE
    /\ intervalIsAuthenticated' = isAuthenticated
    /\ CheckAuth(clientNow)
    /\ UNCHANGED <<ledgerVars, authVars, transactions, clientTransactions, nextTx, txOp,
                   txStatus, backend, browserToken, today, loadData, addReply, serverValid, clientNow>>

\* login with the master password: the token of the answer and an auth
\* status are stored, isAuthenticated is set
Login ==
    /\ mounted /\ ~isAuthenticated
    /\ storedAuth' = [token |-> TRUE, lastVerified |-> clientNow]
    /\ isAuthenticated' = TRUE
    /\ serverValid' = TRUE
    /\ UNCHANGED <<ledgerVars, authVars, transactions, clientTransactions, nextTx, txOp,
                   txStatus, backend, browserToken, today, loadData, addReply, mounted,
                   intervalIsAuthenticated, clientNow>>

\* logout
Logout ==
    /\ mounted /\ isAuthenticated
    /\ storedAuth' = NoStoredAuth
    /\ isAuthenticated' = FALSE
    /\ UNCHANGED <<ledgerVars, authVars, transactions, clientTransactions, nextTx, txOp,
                   txStatus, backend, browserToken, today, loadData, addReply, mounted,
                   intervalIsAuthenticated, serverValid, clientNow>>

\* five minutes pass and the callback of setInterval runs:
\* if (isAuthenticated) checkAuth(), with the isAuthenticated it closed over
IntervalTick ==
    /\ mounted
    /\ clientNow < MaxPeriods
    /\ clientNow' = clientNow + 1
    /\ IF intervalIsAuthenticated
       THEN CheckAuth(clientNow + 1)
       ELSE UNCHANGED <<isAuthenticated, storedAuth>>
    /\ UNCHANGED <<ledgerVars, authVars, transactions, clientTransactions, nextTx, txOp,
                   txStatus, backend, browserToken, today, loadData, addReply, mounted,
                   intervalIsAuthenticated, serverValid>>

\* the device is revoked from another device
RevokedElsewhere ==
    /\ storedAuth.token /\ serverValid
    /\ serverValid' = FALSE
    /\ UNCHANGED <<ledgerVars, authVars, transactions, clientTransactions, nextTx, txOp,
                   txStatus, backend, browserToken, today, loadData, addReply, mounted, isAuthenticated,
                   intervalIsAuthenticated, storedAuth, clientNow>>

\* authenticatedFetch got a 401 and dispatched 'auth:token-invalid':
\* handleTokenInvalid clears the auth state
HandleTokenInvalid ==
    /\ mounted /\ storedAuth.token /\ ~serverValid
    /\ storedAuth' = NoStoredAuth
    /\ isAuthenticated' = FALSE
    /\ UNCHANGED <<ledgerVars, authVars, transactions, clientTransactions, nextTx, txOp,
                   txStatus, backend, browserToken, today, loadData, addReply, mounted,
                   intervalIsAuthenticated, serverValid, clientNow>>

\* the page is loaded again: a new AuthProvider with its initial state
Reload ==
    /\ mounted
    /\ mounted' = FALSE
    /\ isAuthenticated' = FALSE
    /\ intervalIsAuthenticated' = FALSE
    /\ UNCHANGED <<ledgerVars, authVars, transactions, clientTransactions, nextTx, txOp,
                   txStatus, backend, browserToken, today, loadData, addReply, storedAuth, serverValid,
                   clientNow>>

\* ============================================================ transactions
\* the fold step as it would be if the type were not looked at
BalanceStep_IgnoresType(balance, transaction) == balance + transaction.amount

\* the callback of reduce: income adds, expense subtracts
BalanceStep(balance, transaction) ==
    IF transaction.type = "income"
    THEN balance + transaction.amount
    ELSE balance - transaction.amount

\* list.reduce(callback, balance)
RECURSIVE Reduce(_, _)
Reduce(list, balance) ==
    IF list = <<>> THEN balance
    ELSE Reduce(Tail(list), BalanceStep(balance, Head(list)))

\* getCurrentBalance over the stored transactions
GetCurrentBalance == Reduce(transactions, 0)

\* totalBalance of the client over its own list
TotalBalance == Reduce(clientTransactions, 0)

\* insertTransactionSchema.parse succeeds: type is one of the enum, amount is
\* a positive number, category has at least one character, date is a string
InsertTransactionSchema(data) ==
    /\ data.type \in TxTypes
    /\ data.amount # AbsentNum /\ ValidAmount(data.amount)
    /\ data.category \notin {AbsentStr, ""}
    /\ data.date # AbsentNum

\* what parse returns: description is optional with the default ""
ParsedTransaction(data) ==
    [data EXCEPT !.description = IF @ = AbsentStr THEN "" ELSE @]

\* the partial schema as it would be if the fields that are there were not
\* checked
PartialTransactionSchema_Unchecked(data) == TRUE

\* insertTransactionSchema.partial().parse succeeds: every field may be left
\* out, a field that is there is checked as above
PartialTransactionSchema(data) ==
    /\ data.type \in TxTypes \cup {AbsentStr}
    /\ data.amount = AbsentNum \/ ValidAmount(data.amount)
    /\ data.category # ""

\* { ...transaction, ...data }, and update(data) of Supabase: the fields of
\* the payload replace those of the record
MergedTransaction(transaction, data) ==
    [transaction EXCEPT
        !.type = IF data.type # AbsentStr THEN data.type ELSE @,
        !.amount = IF data.amount # AbsentNum THEN data.amount ELSE @,
        !.category = IF data.category # AbsentStr THEN data.category ELSE @,
        !.description = IF data.description # AbsentStr THEN data.description ELSE @,
        !.date = IF data.date # AbsentNum THEN data.date ELSE @]

UpdatedList(list, id, data) ==
    [i \in 1..Len(list) |->
        IF list[i].id = id THEN MergedTransaction(list[i], data) ELSE list[i]]

HasTransaction(list, id) == \E i \in 1..Len(list) : list[i].id = id

WithoutTransaction(list, id) ==
    LET Keep(t) == t.id # id IN SelectSeq(list, Keep)

\* the record addTransaction builds: the validated fields, an id from
\* randomUUID (the next unused number)
NewTransaction(data) ==
    [id |-> nextTx + 1,
     type |-> data.type,
     amount |-> data.amount,
     category |-> data.category,
     description |-> IF data.description = "" THEN "" ELSE data.description,
     date |-> data.date]

\* POST /api/transactions with a valid body: the record is appended to the
\* store and the client puts the returned record in front of its list
AddTransaction(data) ==
    /\ InsertTransactionSchema(data)
    /\ nextTx < MaxTransactions
    /\ LET newTransaction == NewTransaction(ParsedTransaction(data)) IN
       /\ transactions' = Append(transactions, newTransaction)
       /\ clientTransactions' = <<newTransaction>> \o clientTransactions
    /\ nextTx' = nextTx + 1
    /\ txOp' = "add"
    /\ txStatus' = 201
    /\ UNCHANGED <<ledgerVars, authVars, clientVars, backend>>

\* POST /api/transactions over Vercel KV while kv.get fails:
\* VercelKVStorage.getTransactions catches the error and returns [], the new
\* record is pushed on that empty list and kv.set stores it over the old data
AddTransactionGetFails(data) ==
    /\ backend = "kv"
    /\ InsertTransactionSchema(data)
    /\ nextTx < MaxTransactions
    /\ LET newTransaction == NewTransaction(ParsedTransaction(data)) IN
       /\ transactions' = <<newTransaction>>
       /\ clientTransactions' = <<newTransaction>> \o clientTransactions
    /\ nextTx' = nextTx + 1
    /\ txOp' = "add"
    /\ txStatus' = 201
    /\ UNCHANGED <<ledgerVars, authVars, clientVars, backend>>

\* POST /api/transactions over Vercel KV while kv.set fails: saveTransactions
\* rethrows, executeWithFallback points `storage` at the fallback
\* LocalCSVStorage, whose list is still empty, and runs addTransaction again
AddTransactionFallback(data) ==
    /\ backend = "kv"
    /\ InsertTransactionSchema(data)
    /\ nextTx < MaxTransactions
    /\ LET newTransaction == NewTransaction(ParsedTransaction(data)) IN
       /\ transactions' = <<newTransaction>>
       /\ clientTransactions' = <<newTransaction>> \o clientTransactions
    /\ backend' = "local"
    /\ nextTx' = nextTx + 1
    /\ txOp' = "add"
    /\ txStatus' = 201
    /\ UNCHANGED <<ledgerVars, authVars, clientVars>>

\* getAllTransactions: Supabase orders by created_at, newest first; the KV
\* entry and the in-memory list are returned as they are
RECURSIVE Reversed(_)
Reversed(list) ==
    IF list = <<>> THEN <<>> ELSE Append(Reversed(Tail(list)), Head(list))

GetAllTransactionsOf(store, list) ==
    IF store = "supabase" THEN Reversed(list) ELSE list

GetAllTransactions == GetAllTransactionsOf(backend, transactions)

\* nothing in flight
NoLoad == [pending |-> FALSE, data |-> <<>>]

\* loadTransactions, up to its await: GET /api/transactions is answered with
\* the list stored at that moment
LoadTransactionsStart ==
    /\ ~loadData.pending
    /\ loadData' = [pending |-> TRUE, data |-> GetAllTransactions]
    /\ UNCHANGED <<ledgerVars, authVars, transactions, clientTransactions, nextTx, txOp,
                   txStatus, backend, browserToken, today, addReply, sessionVars>>

\* loadTransactions, after its await: setTransactions(data)
LoadTransactionsFinish ==
    /\ loadData.pending
    /\ clientTransactions' = loadData.data
    /\ loadData' = NoLoad
    /\ UNCHANGED <<ledgerVars, authVars, transactions, nextTx, txOp, txStatus, backend,
                   browserToken, today, addReply, sessionVars>>

\* addTransaction of the client, up to its await: POST /api/transactions
\* stores the record and answers with it
AddTransactionStart(data) ==
    /\ addReply = <<>>
    /\ InsertTransactionSchema(data)
    /\ nextTx < MaxTransactions
    /\ LET newTransaction == NewTransaction(ParsedTransaction(data)) IN
       /\ transactions' = Append(transactions, newTransaction)
       /\ addReply' = <<newTransaction>>
    /\ nextTx' = nextTx + 1
    /\ UNCHANGED <<ledgerVars, authVars, clientTransactions, txOp, txStatus, backend,
                   browserToken, today, loadData, sessionVars>>

\* addTransaction of the client, after its await:
\* setTransactions(prev => [newTransaction, ...prev])
AddTransactionFinish ==
    /\ addReply # <<>>
    /\ clientTransactions' = addReply \o clientTransactions
    /\ addReply' = <<>>
    /\ txOp' = "add"
    /\ txStatus' = 201
    /\ UNCHANGED <<ledgerVars, authVars, transactions, nextTx, backend, browserToken, today, loadData,
                   sessionVars>>

\* [...transactions].sort((a, b) => date(a) - date(b)): ascending by date,
\* records of one date staying in the order of the list
RECURSIVE InsertByDate(_, _)
InsertByDate(sorted, t) ==
    IF sorted = <<>> THEN <<t>>
    ELSE IF sorted[Len(sorted)].date <= t.date THEN Append(sorted, t)
    ELSE Append(InsertByDate(SubSeq(sorted, 1, Len(sorted) - 1), t), sorted[Len(sorted)])

RECURSIVE SortedByDate(_)
SortedByDate(list) ==
    IF list = <<>> THEN <<>>
    ELSE InsertByDate(SortedByDate(SubSeq(list, 1, Len(list) - 1)), list[Len(list)])

\* n.toFixed(2) of a whole number
ToFixed(n) == ToString(n) \o ".00"

\* `"${text}"`
Quoted(text) == "\"" \o text \o "\""

\* one row of the bank statement: date, "description" (the category when
\* the description is blank), withdrawals, deposits, running balance
StatementRow(t, runningBalance) ==
    <<t.date,
      Quoted(IF t.description # "" THEN t.description ELSE t.category),
      IF t.type = "income" THEN "" ELSE ToFixed(t.amount),
      IF t.type = "income" THEN ToFixed(t.amount) ELSE "",
      ToFixed(runningBalance)>>

\* sortedTransactions.map(...) with runningBalance carried along
RECURSIVE StatementRows(_, _)
StatementRows(sorted, runningBalance) ==
    IF sorted = <<>> THEN <<>>
    ELSE LET balance == BalanceStep(runningBalance, Head(sorted)) IN
         <<StatementRow(Head(sorted), balance)>> \o StatementRows(Tail(sorted), balance)

\* one row of SupabaseStorage.getCSVContent: date, type, amount, category,
\* "description"
ExportRow(t) ==
    <<t.date, t.type, ToString(t.amount), t.category, Quoted(t.description)>>

\* getCSVContent: the header cells and the rows. LocalCSVStorage and
\* VercelKVStorage keep the statement generated at the last save,
\* SupabaseStorage builds its export from getAllTransactions
GetCSVContentOf(store, list) ==
    IF store = "supabase"
    THEN [headers |-> <<"Date", "Type", "Amount", "Category", "Description">>,
          rows |-> LET all == GetAllTransactionsOf(store, list) IN
                   [i \in 1..Len(all) |-> ExportRow(all[i])]]
    ELSE [headers |-> <<"Date", "Description", "Withdrawals", "Deposits", "Balance">>,
          rows |-> StatementRows(SortedByDate(list), 0)]

GetCSVContent == GetCSVContentOf(backend, transactions)

\* date.toISOString().slice(0, 7): "YYYY-MM", as the number YYYYMM
MonthStr(date) == date \div 100

\* the month before, as the calendar has it: December of the year before
\* for a January
CalendarPreviousMonth(date) ==
    IF MonthOf(date) = 1 THEN (YearOf(date) - 1) * 100 + 12
    ELSE YearOf(date) * 100 + MonthOf(date) - 1

\* date.setMonth(date.getMonth() - 1): the month is set back with the day of
\* the month kept; a day the target month does not have runs over into the
\* month after it
SetMonthBack(date) ==
    LET target == CalendarPreviousMonth(date)
        y == target \div 100
        m == target % 100
        d == DayOf(date) IN
    IF d <= DaysInMonth(y, m) THEN DateOf(y, m, d)
    ELSE DateOf(YearOf(date), MonthOf(date), d - DaysInMonth(y, m))

\* previousMonthStr
PreviousMonthStr == MonthStr(SetMonthBack(today))

\* list.filter(t => t.type === type).reduce((sum, t) => sum + t.amount, 0)
\* over the transactions whose date starts with the month
RECURSIVE SumOfMonth(_, _, _)
SumOfMonth(list, month, type) ==
    IF list = <<>> THEN 0
    ELSE (IF MonthStr(Head(list).date) = month /\ Head(list).type = type
          THEN Head(list).amount ELSE 0)
         + SumOfMonth(Tail(list), month, type)

PreviousMonthIncome == SumOfMonth(clientTransactions, PreviousMonthStr, "income")
PreviousMonthExpenses == SumOfMonth(clientTransactions, PreviousMonthStr, "expense")

\* POST /api/transactions with a body parse refuses: the ZodError is caught,
\* its message holds neither 'SUPABASE_URL' nor 'validation', the answer is
\* 500 and the client's addTransaction throws
AddTransactionRejected(data) ==
    /\ ~InsertTransactionSchema(data)
    /\ txOp' = "rejected"
    /\ txStatus' = 500
    /\ UNCHANGED <<ledgerVars, authVars, clientVars, transactions, clientTransactions, nextTx, backend>>

\* whether deleteTransaction of the store returns false for a record that is
\* not there: Supabase reports no error for a delete that matched no row
DeleteReportsMissing(store) == store # "supabase"

\* PUT /api/transactions/:id with a valid body: the stored record is merged
\* with the payload; the client replaces its copy by the returned record, or
\* keeps its list on 404
UpdateTransaction(id, data) ==
    /\ PartialTransactionSchema(data)
    /\ transactions' = UpdatedList(transactions, id, data)
    /\ clientTransactions' =
          IF HasTransaction(transactions, id)
          THEN [i \in 1..Len(clientTransactions) |->
                  IF clientTransactions[i].id = id
                  THEN CHOOSE t \in {transactions'[j] : j \in 1..Len(transactions')} : t.id = id
                  ELSE clientTransactions[i]]
          ELSE clientTransactions
    /\ txOp' = IF HasTransaction(transactions, id) THEN "update" ELSE "notfound"
    /\ txStatus' = IF HasTransaction(transactions, id) THEN 200 ELSE 404
    /\ UNCHANGED <<ledgerVars, authVars, clientVars, nextTx, backend>>

\* PUT /api/transactions/:id with a body parse refuses: 400, nothing stored
UpdateTransactionRejected(id, data) ==
    /\ ~PartialTransactionSchema(data)
    /\ txOp' = "rejected"
    /\ txStatus' = 400
    /\ UNCHANGED <<ledgerVars, authVars, clientVars, transactions, clientTransactions, nextTx, backend>>

\* DELETE /api/transactions/:id: the record is removed from the store; the
\* route answers 404 when the store returned false, and the client filters
\* its list when the answer was not 404
DeleteTransaction(id) ==
    LET success == HasTransaction(transactions, id) \/ ~DeleteReportsMissing(backend) IN
    /\ transactions' = WithoutTransaction(transactions, id)
    /\ clientTransactions' =
          IF success THEN WithoutTransaction(clientTransactions, id)
          ELSE clientTransactions
    /\ txOp' = "delete"
    /\ txStatus' = IF success THEN 200 ELSE 404
    /\ UNCHANGED <<ledgerVars, authVars, clientVars, nextTx, backend>>

\* ------------------------------------------------------------ specifications
\* no transaction stored, the client's list loaded
TxInit ==
    /\ transactions = <<>>
    /\ clientTransactions = <<>>
    /\ nextTx = 0
    /\ txOp = "none"
    /\ txStatus = 0
    /\ loadData = NoLoad
    /\ addReply = <<>>
    /\ mounted = FALSE
    /\ isAuthenticated = FALSE
    /\ intervalIsAuthenticated = FALSE
    /\ clientNow = 0
    /\ browserToken = [b \in Browsers |-> NoToken]

LedgerInit ==
    /\ loans = [l \in LoanIds |-> NoLoan]
    /\ payments = [p \in PayIds |-> NoPayment]
    /\ nextLoan = 0
    /\ nextPay = 0
    /\ req = [r \in Reqs |-> IdleReq]
    /\ last = NoOp

\* no device has authenticated yet
AuthInit ==
    /\ deviceTokens = [t \in TokenIds |-> NoRow]
    /\ approvedTokens = {}
    /\ registeredDevices = [d \in Devices |-> NoDevice]
    /\ pending = {}
    /\ nextToken = 0
    /\ now = 0
    /\ issued = [t \in TokenIds |-> ""]
    /\ lastEvent = NoEvent
    /\ revokedTokens = {}

\* the ledger, behind the deployed auth module
Init ==
    /\ LedgerInit
    /\ AuthInit
    /\ TxInit
    /\ backend = "supabase"
    /\ storedAuth = NoStoredAuth
    /\ serverValid = FALSE
    /\ today = DateOf(FirstYear, 1, 1)
    /\ impl = "db"
    /\ masterPassword = "secret"

\* any of the stores behind `storage`
InitTx ==
    /\ LedgerInit
    /\ AuthInit
    /\ TxInit
    /\ backend \in Backends
    /\ storedAuth = NoStoredAuth
    /\ serverValid = FALSE
    /\ today = DateOf(FirstYear, 1, 1)
    /\ impl = "db"
    /\ masterPassword = "secret"

\* either auth module, the master password set or not
InitAuth ==
    /\ LedgerInit
    /\ AuthInit
    /\ TxInit
    /\ backend = "supabase"
    /\ storedAuth = NoStoredAuth
    /\ serverValid = FALSE
    /\ today = DateOf(FirstYear, 1, 1)
    /\ impl \in {"db", "env"}
    /\ masterPassword \in {"", "secret"}

\* what a client may leave out of an update payload
OptAmounts == {-1} \cup Amounts
OptRemaining == {-1} \cup (0..MaxAmount)
OptStatus == {"none"} \cup LoanStatus

\* the requests of a client that waits for each answer
SeqReqs == {"r1"}

vars == <<ledgerVars, authVars, txVars>>

\* every operation of the ledger, requests interleaving at their store calls
Next ==
    \/ \E r \in Reqs, a \in Amounts, ra \in 0..MaxAmount, s \in LoanStatus :
          AddLoan(r, a, ra, s)
    \/ \E r \in Reqs : AddLoanFail(r)
    \/ \E r \in Reqs, l \in LoanIds, a \in OptAmounts, ra \in OptRemaining,
          s \in OptStatus : UpdateLoan(r, l, a, ra, s)
    \/ \E r \in Reqs, l \in LoanIds : UpdateLoanFail(r, l)
    \/ \E r \in Reqs, l \in LoanIds, a \in Amounts, t \in PaymentType :
          AddLoanPayment(r, l, a, t)
    \/ \E r \in Reqs, l \in LoanIds, t \in PaymentType : AddLoanPaymentFail(r, l, t)
    \/ \E r \in Reqs, p \in PayIds : DeleteLoanPaymentFetch(r, p)
    \/ \E r \in Reqs, p \in PayIds : DeleteLoanPaymentFetchFail(r, p)
    \/ \E r \in Reqs : DeleteLoanPaymentDelete(r)
    \/ \E r \in Reqs : DeleteLoanPaymentDeleteFail(r)
    \/ \E r \in Reqs, l \in LoanIds : DeleteLoanPayments(r, l)
    \/ \E r \in Reqs, l \in LoanIds : DeleteLoanPaymentsFail(r, l)
    \/ \E r \in Reqs : DeleteLoanRow(r)
    \/ \E r \in Reqs : DeleteLoanRowFail(r)
    \/ \E r \in Reqs : AdjRead(r)
    \/ \E r \in Reqs : AdjReadFail(r)
    \/ \E r \in Reqs : AdjWrite(r)
    \/ \E r \in Reqs : AdjWriteFail(r)

Spec == Init /\ [][Next]_vars

\* loans created active with remainingAmount = amount, then payments added and
\* deleted one request at a time, every store call succeeding
NextSeq ==
    \/ \E r \in SeqReqs, a \in Amounts : \E ra \in {0, a} : AddLoan(r, a, ra, "active")
    \/ \E r \in SeqReqs, l \in LoanIds, a \in Amounts, t \in PaymentType :
          AddLoanPayment(r, l, a, t)
    \/ \E r \in SeqReqs, p \in PayIds : DeleteLoanPaymentFetch(r, p)
    \/ \E r \in SeqReqs : DeleteLoanPaymentDelete(r)
    \/ \E r \in SeqReqs : AdjRead(r)
    \/ \E r \in SeqReqs : AdjWrite(r)

SpecSeq == Init /\ [][NextSeq]_vars

\* payments added by two clients at once, every store call succeeding
NextConc ==
    \/ \E r \in Reqs, a \in Amounts : \E ra \in {0, a} : AddLoan(r, a, ra, "active")
    \/ \E r \in Reqs, l \in LoanIds, a \in Amounts, t \in PaymentType :
          AddLoanPayment(r, l, a, t)
    \/ \E r \in Reqs : AdjRead(r)
    \/ \E r \in Reqs : AdjWrite(r)

SpecConc == Init /\ [][NextConc]_vars

\* no addLoanPayment is between its insert and the end of its adjustment
NoAddInFlight == \A o \in Reqs : req[o].op = "addLoanPayment" => Free(o)

\* payments that fit the remaining amount added one at a time, and payments
\* deleted by two clients at once, every store call succeeding
NextRev ==
    \/ \E r \in Reqs, a \in Amounts : Quiescent /\ AddLoan(r, a, a, "active")
    \/ \E r \in Reqs, l \in LoanIds, a \in Amounts :
          Quiescent /\ a <= loans[l].remaining /\ AddLoanPayment(r, l, a, "payment")
    \/ \E r \in Reqs, p \in PayIds : NoAddInFlight /\ DeleteLoanPaymentFetch(r, p)
    \/ \E r \in Reqs, p \in PayIds :
          payments[p] = NoPayment /\ p <= nextPay /\ DeleteLoanPaymentFetchFail(r, p)
    \/ \E r \in Reqs : DeleteLoanPaymentDelete(r)
    \/ \E r \in Reqs : AdjRead(r)
    \/ \E r \in Reqs : AdjWrite(r)

SpecRev == Init /\ [][NextRev]_vars

\* every operation of the ledger, one request at a time, store calls may fail
NextFail ==
    \/ \E r \in SeqReqs, a \in Amounts, ra \in 0..MaxAmount, s \in LoanStatus :
          AddLoan(r, a, ra, s)
    \/ \E r \in SeqReqs : AddLoanFail(r)
    \/ \E r \in SeqReqs, l \in LoanIds, a \in OptAmounts, ra \in OptRemaining,
          s \in OptStatus : UpdateLoan(r, l, a, ra, s)
    \/ \E r \in SeqReqs, l \in LoanIds : UpdateLoanFail(r, l)
    \/ \E r \in SeqReqs, l \in LoanIds, a \in Amounts, t \in PaymentType :
          AddLoanPayment(r, l, a, t)
    \/ \E r \in SeqReqs, l \in LoanIds, t \in PaymentType : AddLoanPaymentFail(r, l, t)
    \/ \E r \in SeqReqs, p \in PayIds : DeleteLoanPaymentFetch(r, p)
    \/ \E r \in SeqReqs, p \in PayIds : DeleteLoanPaymentFetchFail(r, p)
    \/ \E r \in SeqReqs : DeleteLoanPaymentDelete(r)
    \/ \E r \in SeqReqs : DeleteLoanPaymentDeleteFail(r)
    \/ \E r \in SeqReqs, l \in LoanIds : DeleteLoanPayments(r, l)
    \/ \E r \in SeqReqs, l \in LoanIds : DeleteLoanPaymentsFail(r, l)
    \/ \E r \in SeqReqs : DeleteLoanRow(r)
    \/ \E r \in SeqReqs : DeleteLoanRowFail(r)
    \/ \E r \in SeqReqs : AdjRead(r)
    \/ \E r \in SeqReqs : AdjReadFail(r)
    \/ \E r \in SeqReqs : AdjWrite(r)
    \/ \E r \in SeqReqs : AdjWriteFail(r)

SpecFail == Init /\ [][NextFail]_vars

\* loans created active, remainingAmount rewritten through updateLoan with any
\* value the schema accepts, payment-kind records added and deleted; one
\* request at a time, every store call succeeding
NextOps ==
    \/ \E r \in SeqReqs, a \in Amounts : \E ra \in {0, a} : AddLoan(r, a, ra, "active")
    \/ \E r \in SeqReqs, l \in LoanIds, ra \in OptRemaining :
          UpdateLoan(r, l, -1, ra, "none")
    \/ \E r \in SeqReqs, l \in LoanIds, a \in Amounts : AddLoanPayment(r, l, a, "payment")
    \/ \E r \in SeqReqs, p \in PayIds : DeleteLoanPaymentFetch(r, p)
    \/ \E r \in SeqReqs : DeleteLoanPaymentDelete(r)
    \/ \E r \in SeqReqs : AdjRead(r)
    \/ \E r \in SeqReqs : AdjWrite(r)

SpecOps == Init /\ [][NextOps]_vars

\* loans with payments, then deleted; one request at a time, the two store
\* calls of deleteLoan may fail
NextDel ==
    \/ \E r \in SeqReqs, a \in Amounts : \E ra \in {0, a} : AddLoan(r, a, ra, "active")
    \/ \E r \in SeqReqs, l \in LoanIds, a \in Amounts, t \in PaymentType :
          AddLoanPayment(r, l, a, t)
    \/ \E r \in SeqReqs, l \in LoanIds : DeleteLoanPayments(r, l)
    \/ \E r \in SeqReqs, l \in LoanIds : DeleteLoanPaymentsFail(r, l)
    \/ \E r \in SeqReqs : DeleteLoanRow(r)
    \/ \E r \in SeqReqs : DeleteLoanRowFail(r)
    \/ \E r \in SeqReqs : AdjRead(r)
    \/ \E r \in SeqReqs : AdjWrite(r)

SpecDel == Init /\ [][NextDel]_vars

\* what clients send to the auth routes and in their headers
Passwords == {"", "wrong", "secret"}
DeviceInputs == {""} \cup Devices
TokenInputs == {NoToken, Forged} \cup TokenIds

\* the device access controller: its routes, the gate and the store calls
\* of the promises the routes leave behind
NextAuth ==
    \/ \E pw \in Passwords, d \in DeviceInputs : MasterPasswordAuth(pw, d)
    \/ \E pw \in Passwords, d \in DeviceInputs : MasterPasswordAuthRejected(pw, d)
    \/ \E t \in TokenInputs, d \in DeviceInputs : ValidateDevice(t, d)
    \/ \E t \in TokenInputs \ {NoToken}, f \in BOOLEAN : ValidateDeviceTokenResolves(t, f)
    \/ \E path \in ApiPaths, t \in TokenInputs, d \in DeviceInputs :
          RequireAuth(path, t, d)
    \/ \E d \in DeviceInputs : RevokeDeviceStart(d)
    \/ \E d \in DeviceInputs : RevokeDeviceEnv(d)
    \/ \E d \in DeviceInputs : RevokeDeviceRejected(d)
    \/ \E p \in pending : StoreDeviceToken(p)
    \/ \E p \in pending : RevokeDevice(p)
    \/ \E p \in pending : UpdateDeviceLastSeen(p)
    \/ \E p \in pending : StoreCallFails(p)
    \/ ListDevices
    \/ \E p \in pending : CleanupOldDevices(p)
    \/ Tick

SpecAuth == InitAuth /\ [][NextAuth]_vars

\* the token records of the deployed auth module: tokens issued and stored,
\* devices revoked, last-seen refreshed, devices not seen since an earlier
\* instant swept, as time passes
NextTokens ==
    \/ \E d \in Devices : MasterPasswordAuth("secret", d)
    \/ \E p \in pending : StoreDeviceToken(p)
    \/ \E d \in Devices : RevokeDeviceStart(d)
    \/ \E p \in pending : RevokeDevice(p)
    \/ \E d \in Devices : \E t \in IssuedTo(d) : ValidateDevice(t, d)
    \/ \E p \in pending : UpdateDeviceLastSeen(p)
    \/ CleanupOldDevicesStart(0)
    \/ \E p \in pending : CleanupOldDevices(p)
    \/ Tick

SpecTokens == Init /\ [][NextTokens]_vars

\* the browsers of a family sign in, and devices are revoked
NextFamily ==
    \/ \E b \in Browsers : AuthenticateWithPassword(b)
    \/ \E p \in pending : StoreDeviceToken(p)
    \/ \E b \in Browsers : RevokeDeviceStart(DeviceIdOf(b, clientNow))
    \/ \E p \in pending : RevokeDevice(p)
    \/ \E b \in Browsers : ValidateDevice(browserToken[b], DeviceIdOf(b, clientNow))
    \/ Tick

SpecFamily == Init /\ [][NextFamily]_vars

\* the sweep with any retention period, over records stored and swept at
\* different times
NextSweep ==
    \/ \E d \in Devices : MasterPasswordAuth("secret", d)
    \/ \E p \in pending : StoreDeviceToken(p)
    \/ \E daysOld \in 0..MaxTime : CleanupOldDevicesStart(daysOld)
    \/ \E p \in pending : CleanupOldDevices(p)
    \/ Tick

SpecSweep == Init /\ [][NextSweep]_vars

\* master-password authentication alone, under both auth modules, the master
\* password set or not, with the store calls it leaves behind
NextPassword ==
    \/ \E pw \in Passwords, d \in DeviceInputs : MasterPasswordAuth(pw, d)
    \/ \E pw \in Passwords, d \in DeviceInputs : MasterPasswordAuthRejected(pw, d)
    \/ \E p \in pending : StoreDeviceToken(p)
    \/ \E p \in pending : StoreCallFails(p)

SpecPassword == InitAuth /\ [][NextPassword]_vars

\* what a client may leave out of a transaction update
OptTxTypes == {"none"} \cup TxTypes

\* transactions added, updated and deleted by one client
\* a request body with the given type and amount, category "food", no
\* description, date 0
Body(type, amount) ==
    [type |-> type, amount |-> amount, category |-> "food",
     description |-> AbsentStr, date |-> 0]

\* an update body with at most a type and an amount
Patch(type, amount) ==
    [type |-> type, amount |-> amount, category |-> AbsentStr,
     description |-> AbsentStr, date |-> AbsentNum]

NextTx ==
    \/ \E t \in TxTypes, a \in Amounts : AddTransaction(Body(t, a))
    \/ \E id \in TxIds, t \in OptTxTypes, a \in OptAmounts : UpdateTransaction(id, Patch(t, a))
    \/ \E id \in TxIds : DeleteTransaction(id)

SpecTx == InitTx /\ [][NextTx]_vars

\* a body with one field out of range or left out: a type outside the enum,
\* an amount of 0, an empty category, a required field missing
Defects(body) ==
    {[body EXCEPT !.type = "transfer"], [body EXCEPT !.type = AbsentStr],
     [body EXCEPT !.amount = 0], [body EXCEPT !.amount = AbsentNum],
     [body EXCEPT !.category = ""], [body EXCEPT !.category = AbsentStr],
     [body EXCEPT !.date = AbsentNum]}

\* request bodies, well-formed or not
AnyBodies ==
    {Body(t, a) : t \in TxTypes, a \in Amounts} \cup Defects(Body("income", 1))

\* transactions posted, updated and deleted with any request body
NextValid ==
    \/ \E data \in AnyBodies : AddTransaction(data)
    \/ \E data \in AnyBodies : AddTransactionRejected(data)
    \/ \E id \in TxIds, data \in AnyBodies : UpdateTransaction(id, data)
    \/ \E id \in TxIds, data \in AnyBodies : UpdateTransactionRejected(id, data)
    \/ \E id \in TxIds : DeleteTransaction(id)

SpecValid == InitTx /\ [][NextValid]_vars

\* the client opened on any day of the calendar
InitMonth ==
    /\ LedgerInit
    /\ AuthInit
    /\ TxInit
    /\ backend = "supabase"
    /\ storedAuth = NoStoredAuth
    /\ serverValid = FALSE
    /\ today \in Days
    /\ impl = "db"
    /\ masterPassword = "secret"

\* the 15th of this month and of the two months before it
RecentDates ==
    LET thisMonth == MonthStr(today)
        oneBack == CalendarPreviousMonth(today)
        twoBack == CalendarPreviousMonth(oneBack * 100 + 1) IN
    {thisMonth * 100 + 15, oneBack * 100 + 15, twoBack * 100 + 15}

\* transactions of this month and of the two before it, added and deleted
NextMonth ==
    \/ \E t \in TxTypes, d \in RecentDates :
          AddTransaction([Body(t, 1) EXCEPT !.date = d])
    \/ \E id \in TxIds : DeleteTransaction(id)

SpecMonth == InitMonth /\ [][NextMonth]_vars

\* the browser before the page is loaded, with or without a token stored by
\* an earlier login
InitSession ==
    /\ LedgerInit
    /\ AuthInit
    /\ TxInit
    /\ backend = "supabase"
    /\ storedAuth \in {NoStoredAuth, [token |-> TRUE, lastVerified |-> 0]}
    /\ serverValid = storedAuth.token
    /\ today = DateOf(FirstYear, 1, 1)
    /\ impl = "db"
    /\ masterPassword = "secret"

\* one browser: the page loaded, logins, logouts, the timer, a revocation
\* from elsewhere
NextSession ==
    \/ AuthMount
    \/ Login
    \/ Logout
    \/ IntervalTick
    \/ RevokedElsewhere
    \/ HandleTokenInvalid
    \/ Reload

SpecSession == InitSession /\ [][NextSession]_vars

\* one client adding transactions while it loads or refreshes its list
NextClient ==
    \/ LoadTransactionsStart
    \/ LoadTransactionsFinish
    \/ \E t \in TxTypes, a \in Amounts : AddTransactionStart(Body(t, a))
    \/ AddTransactionFinish

SpecClient == InitTx /\ [][NextClient]_vars

\* valid bodies with any date
DatedBodies ==
    {[Body(t, a) EXCEPT !.date = d] : t \in TxTypes, a \in Amounts, d \in Dates}

\* update bodies that move a transaction to another date or change its type
DatedPatches ==
    {[Patch(t, AbsentNum) EXCEPT !.date = d] : t \in OptTxTypes, d \in Dates}

\* transactions of several dates added, updated and deleted
NextCsv ==
    \/ \E data \in DatedBodies : AddTransaction(data)
    \/ \E id \in TxIds, data \in DatedPatches : UpdateTransaction(id, data)
    \/ \E id \in TxIds : DeleteTransaction(id)

SpecCsv == InitTx /\ [][NextCsv]_vars

\* the valid bodies with category "food" and date 0, with and without a
\* description
DescribedBodies ==
    {[Body(t, a) EXCEPT !.description = d] :
        t \in TxTypes, a \in Amounts, d \in {AbsentStr, "lunch"}}

\* any way a POST /api/transactions with a valid body can end with 201
AddTransactionAnswered(data) ==
    \/ AddTransaction(data)
    \/ AddTransactionGetFails(data)
    \/ AddTransactionFallback(data)

\* transactions added and deleted while calls to Vercel KV may fail
NextTxFail ==
    \/ \E data \in DescribedBodies : AddTransaction(data)
    \/ \E data \in DescribedBodies : AddTransactionGetFails(data)
    \/ \E data \in DescribedBodies : AddTransactionFallback(data)
    \/ \E id \in TxIds : DeleteTransaction(id)

SpecTxFail == InitTx /\ [][NextTxFail]_vars

\* ================================================================== claims
\* the payment-kind amounts currently recorded for loan l
RECURSIVE PaidUpTo(_, _)
PaidUpTo(l, n) ==
    IF n = 0 THEN 0
    ELSE PaidUpTo(l, n - 1)
         + (IF payments[n].loan = l /\ payments[n].type = "payment"
            THEN payments[n].amount ELSE 0)
Paid(l) == PaidUpTo(l, MaxPayments)

Exists(l) == loans[l] # NoLoan

\* C1: for a loan created with remainingAmount = amount, once every request
\* has returned, remainingAmount = max(0, amount - sum of the payment-kind
\* amounts recorded for the loan).
C1_Reconciled ==
    Quiescent =>
        \A l \in LoanIds :
            Exists(l) => loans[l].remaining = Max(0, loans[l].amount - Paid(l))

\* C2: for a loan created active, under sequential payment adds and deletes,
\* status is completed exactly when remainingAmount = 0 and active otherwise,
\* and completedAt is stamped exactly while the loan is completed.
C2_StatusFollowsRemaining ==
    \A l \in LoanIds :
        Exists(l) =>
            /\ loans[l].status = "completed" <=> loans[l].remaining = 0
            /\ loans[l].status = "active" <=> loans[l].remaining > 0
            /\ loans[l].completedAt <=> loans[l].remaining = 0

\* C2, its case: a loan that was paid off (the deletion read remainingAmount 0)
\* is active again, with completedAt cleared, after the payment was deleted
C2_RevertedToActive ==
    /\ Quiescent
    /\ last.op = "deleteLoanPayment"
    /\ last.before = 0
    /\ \E l \in LoanIds :
          /\ Exists(l)
          /\ loans[l].status = "active"
          /\ loans[l].remaining > 0
          /\ ~loans[l].completedAt

\* C3: when the deletion of a payment-kind record completes right after the
\* addLoanPayment that created that record, the loan's remainingAmount is
\* again the value the addition found.
C3_SymmetricReversal ==
    [][\A r \in Reqs :
          ( /\ req[r].op = "deleteLoanPayment"
            /\ req[r].pc = "adj_write"
            /\ req'[r].pc = "done"
            /\ req'[r].adjust = "ok"
            /\ last.op = "addLoanPayment"
            /\ last.pay = req[r].pay )
          => loans'[req[r].loan].remaining = last.before]_vars

\* C4: when the master-password route answers success with a token, the
\* token's record is persisted and active, so validateDeviceToken accepts it.
C4_IssuedTokenValidates ==
    lastEvent.ev = "auth_ok" => ValidateDeviceToken(lastEvent.token)

\* C5: once revokeDevice(deviceId) has completed, validateDeviceToken is false
\* for every token issued to that device before the revocation.
C5_RevokedTokensRejected ==
    \A t \in revokedTokens : ~ValidateDeviceToken(t)

\* C6: a request passes the gate if and only if it targets an auth endpoint
\* or the health check, or carries a token for which validateDeviceToken
\* yields true; otherwise it is answered 401.
C6_GateAdmitsOnlyValidTokens ==
    lastEvent.ev = "gate" =>
        ( lastEvent.ok <=>
            \/ lastEvent.path \in AuthPaths
            \/ lastEvent.path = "/api/health"
            \/ lastEvent.token # NoToken /\ ValidateDeviceToken(lastEvent.token) )

\* C7: concurrent addLoanPayment calls on one loan are not mutually excluded:
\* a request about to read the loan's remainingAmount is never held back,
\* whatever the other request has read and not yet written.
C7_NoMutualExclusion ==
    \A r \in Reqs :
        (req[r].pc = "adj_read" /\ Exists(req[r].loan)) => ENABLED AdjRead(r)

\* C7, its case: both requests stored a payment-kind record on the same loan
\* and returned, and remainingAmount reflects only one of the two amounts
C7_LostUpdate ==
    /\ Quiescent
    /\ \E l \in LoanIds :
          /\ Exists(l)
          /\ \A r \in Reqs :
                /\ req[r].op = "addLoanPayment"
                /\ req[r].type = "payment"
                /\ req[r].loan = l
                /\ req[r].adjust = "ok"
                /\ payments[req[r].pay] # NoPayment
          /\ req["r1"].pay # req["r2"].pay
          /\ Paid(l) = payments[req["r1"].pay].amount + payments[req["r2"].pay].amount
          /\ Paid(l) <= loans[l].amount
          /\ loans[l].remaining = loans[l].amount - payments[req["r1"].pay].amount

\* C8: addLoanPayment and deleteLoanPayment never answer success when the
\* adjustment of the parent loan failed.
C8_FailedAdjustmentReported ==
    \A r \in Reqs :
        (req[r].pc = "done" /\ req[r].adjust = "failed") => req[r].result = "error"

\* C9: a mutating operation that has returned either failed having written
\* nothing, or wrote everything: no payment record written or removed without
\* the adjustment of its loan, no payments deleted while the loan stays.
C9_AllOrNothing ==
    \A r \in Reqs :
        req[r].pc = "done" =>
            /\ req[r].result = "error" => ~req[r].wrote
            /\ ( /\ req[r].op \in {"addLoanPayment", "deleteLoanPayment"}
                 /\ req[r].type = "payment"
                 /\ req[r].wrote )
               => req[r].adjust = "ok"

\* C10: the remainingAmount of a stored loan changes only in the step in which
\* addLoanPayment or deleteLoanPayment writes its adjustment.
C10_OnlyPaymentsChangeRemaining ==
    [][\A l \in LoanIds :
          (Exists(l) /\ loans'[l] # NoLoan /\ loans'[l].remaining # loans[l].remaining)
          => \E r \in Reqs :
                /\ req[r].op \in {"addLoanPayment", "deleteLoanPayment"}
                /\ req[r].pc = "adj_write"
                /\ req[r].loan = l
                /\ req'[r].pc = "done"]_vars

\* C11: the remainingAmount of every stored loan is >= 0 in every reachable
\* state: each adjustment is floored at 0, also when the payment exceeds what
\* remained.
C11_RemainingNeverNegative ==
    \A l \in LoanIds : Exists(l) => loans[l].remaining >= 0

\* C11, its case: the last adjustment written was for a payment larger than
\* the remainingAmount it read, and the loan stores 0
C11_OverpaymentFloored ==
    /\ last.op = "addLoanPayment"
    /\ last.pay \in PayIds
    /\ payments[last.pay] # NoPayment
    /\ payments[last.pay].amount > last.before
    /\ Exists(payments[last.pay].loan)
    /\ loans[payments[last.pay].loan].remaining = 0

\* C12: every step of a request that adds or deletes an interest-kind record
\* leaves every loan row (remainingAmount, status, completedAt) unchanged.
C12_InterestLeavesLoanUnchanged ==
    [][\A r \in Reqs :
          ( /\ req'[r] # req[r]
            /\ req'[r].op \in {"addLoanPayment", "deleteLoanPayment"}
            /\ req'[r].type = "interest" )
          => loans' = loans]_vars

\* C12, its case: an interest-kind record of a partly repaid loan was deleted
C12_InterestDeleted ==
    \E r \in Reqs :
        /\ req[r].op = "deleteLoanPayment"
        /\ req[r].type = "interest"
        /\ req[r].pc = "done"
        /\ req[r].result = "ok"
        /\ payments[req[r].pay] = NoPayment
        /\ Exists(req[r].loan)
        /\ loans[req[r].loan].remaining < loans[req[r].loan].amount

\* no payment record references loan l
NoPaymentsOf(l) == \A p \in PayIds : payments[p].loan # l

\* C13: deleteLoan deletes the payments of the loan before the loan: while it
\* is about to delete the loan row no payment references the loan, once it has
\* succeeded neither the loan nor a payment referencing it is stored, and when
\* deleting the payments fails the loan rows are left as they were.
C13_PaymentsDeletedBeforeLoan ==
    /\ [](\A r \in Reqs :
            req[r].op = "deleteLoan" =>
                /\ req[r].pc = "del_loan" => NoPaymentsOf(req[r].loan)
                /\ (req[r].pc = "done" /\ req[r].result = "ok") =>
                       (~Exists(req[r].loan) /\ NoPaymentsOf(req[r].loan)))
    /\ [][\A r \in Reqs :
            (Free(r) /\ req'[r].op = "deleteLoan" /\ req'[r].pc = "done")
            => loans' = loans]_vars

\* C13, its case: a loan that had payments was deleted with all of them
C13_LoanAndPaymentsGone ==
    \E r \in Reqs :
        /\ req[r].op = "deleteLoan"
        /\ req[r].pc = "done"
        /\ req[r].result = "ok"
        /\ req[r].loan <= nextLoan
        /\ nextPay > 0
        /\ ~Exists(req[r].loan)
        /\ \A p \in PayIds : payments[p] = NoPayment

\* C14: a persistence error never ends in "authenticated": a token lookup
\* that fails resolves to false, and no token that the master-password route
\* handed to a client has a record whose store call failed.
C14_FailClosed ==
    /\ lastEvent.ev = "lookup_failed" => ~lastEvent.ok
    /\ ~( /\ lastEvent.ev = "failed"
          /\ lastEvent.token \in TokenIds
          /\ issued[lastEvent.token] # "" )

\* the other setting of the master password variable
OtherConfiguration == IF masterPassword = "" THEN "secret" ELSE ""

\* C15: a failed master-password authentication gets the status and message
\* it would get under the other configuration (master password set or unset)
\* whenever it fails there too: a wrong password and an unconfigured password
\* are answered alike.
C15_SameAnswerWhenUnconfigured ==
    [][\A pw \in Passwords, d \in DeviceInputs :
          ( /\ MasterPasswordAuthRejected(pw, d)
            /\ MasterPasswordResponseIn(OtherConfiguration, pw, d) # "200 success" )
          => lastEvent'.ev = MasterPasswordResponseIn(OtherConfiguration, pw, d)]_vars

\* C15, its case: a well-formed request was refused while no master password
\* is configured
C15_RefusedUnconfigured ==
    /\ masterPassword = ""
    /\ lastEvent.ev = "401 Invalid master password"
    /\ lastEvent.device # ""

\* C16: a token record that is inactive stays inactive: no step of
\* authentication, validation, last-seen refresh, revocation or sweep makes a
\* revoked token validate again.
C16_RevokedIsTerminal ==
    [][\A t \in TokenIds :
          (deviceTokens[t].exists /\ ~deviceTokens[t].active)
          => (deviceTokens'[t].exists /\ ~deviceTokens'[t].active)]_vars

\* C16, its case: the last-seen refresh of a device ran while the device had
\* a revoked token, and the token is still revoked
C16_RefreshedAfterRevocation ==
    /\ lastEvent.ev = "seen"
    /\ \E t \in TokenIds :
          /\ deviceTokens[t].exists
          /\ deviceTokens[t].device = lastEvent.device
          /\ ~deviceTokens[t].active
          /\ t \in revokedTokens

\* C17: revokeDevice answers true exactly when a token record of the device
\* exists in the store, and leaves the store unchanged when there is none.
C17_RevokeReportsFound ==
    [][\A p \in pending :
          RevokeDevice(p) =>
              LET found == \E t \in TokenIds :
                               deviceTokens[t].exists /\ deviceTokens[t].device = p.device
              IN /\ lastEvent'.ok <=> found
                 /\ ~found => deviceTokens' = deviceTokens]_vars

\* C18: a device-list response lists exactly the devices whose records are
\* active, and its entries carry no token field.
C18_ListsActiveDevices ==
    /\ "token" \notin DeviceListFields
    /\ lastEvent.ev = "devices" => (lastEvent.ok /\ lastEvent.listed = ActiveDevices)

\* C19: the sweep deactivates exactly the active records last seen before its
\* cutoff, leaves every other record unchanged, and returns the number of
\* records it deactivated.
C19_SweepDeactivatesOldRecords ==
    [][\A p \in pending :
          CleanupOldDevices(p) =>
              /\ \A t \in TokenIds :
                     deviceTokens'[t] =
                        IF /\ deviceTokens[t].exists
                           /\ deviceTokens[t].active
                           /\ deviceTokens[t].lastSeen < p.token
                        THEN [deviceTokens[t] EXCEPT !.active = FALSE]
                        ELSE deviceTokens[t]
              /\ lastEvent'.count =
                     Cardinality({t \in TokenIds :
                                     deviceTokens[t].active /\ ~deviceTokens'[t].active})]_vars

\* C19, its case: a sweep deactivated an old record and left a recent one
C19_SweptOneKeptOne ==
    /\ lastEvent.ev = "cleaned"
    /\ lastEvent.count = 1
    /\ \E t, u \in TokenIds :
          /\ deviceTokens[t].exists /\ ~deviceTokens[t].active /\ t \notin revokedTokens
          /\ deviceTokens[u].exists /\ deviceTokens[u].active

\* the sum of the amounts of the records of one type, counted from scratch
RECURSIVE SumOfType(_, _)
SumOfType(list, type) ==
    IF list = <<>> THEN 0
    ELSE (IF Head(list).type = type THEN Head(list).amount ELSE 0)
         + SumOfType(Tail(list), type)

\* C20: after any sequence of addTransaction, updateTransaction and
\* deleteTransaction the current balance, on the server and in the client, is
\* the sum of the stored income amounts minus the sum of the stored expense
\* amounts.
C20_BalanceIsRecomputed ==
    /\ GetCurrentBalance = SumOfType(transactions, "income") - SumOfType(transactions, "expense")
    /\ TotalBalance = SumOfType(transactions, "income") - SumOfType(transactions, "expense")

\* C20, its case: after adds and a delete, an update left a store with both
\* types of record and a negative balance
C20_UpdatedAfterDelete ==
    /\ txOp = "update"
    /\ Len(transactions) < nextTx
    /\ SumOfType(transactions, "income") > 0
    /\ SumOfType(transactions, "expense") > SumOfType(transactions, "income")

\* C21: a second deleteTransaction(id), on an id that was stored and has
\* been deleted, reports NotFound (404).
C21_SecondDeleteNotFound ==
    [][\A id \in TxIds :
        (DeleteTransaction(id) /\ id <= nextTx /\ ~HasTransaction(transactions, id))
            => txStatus' = 404]_vars

\* the records of a list, as a set
Records(list) == {list[i] : i \in 1..Len(list)}

\* C22: addTransaction with a valid body followed by listTransactions yields
\* the records listed before plus exactly one new record, which carries the
\* fields of the body and an id that no listed record had.
C22_AddThenList ==
    [][\A data \in DescribedBodies :
        AddTransactionAnswered(data) =>
            \E t \in Records(GetAllTransactions') :
                /\ Records(GetAllTransactions') = Records(GetAllTransactions) \cup {t}
                /\ \A u \in Records(GetAllTransactions) : u.id # t.id
                /\ t.type = data.type
                /\ t.amount = data.amount
                /\ t.category = data.category
                /\ t.description = ParsedTransaction(data).description
                /\ t.date = data.date]_vars

\* a field that is there and is out of range
InvalidField(data) ==
    \/ data.type \notin TxTypes \cup {AbsentStr}
    \/ data.amount # AbsentNum /\ data.amount <= 0
    \/ data.category = ""

\* a required field left out
MissingField(data) ==
    \/ data.type = AbsentStr
    \/ data.amount = AbsentNum
    \/ data.category = AbsentStr
    \/ data.date = AbsentNum

\* C23: a POST whose body has an invalid or missing field, and a PUT whose
\* body has an invalid field, leave the store unchanged and are not answered
\* with success; every stored transaction has amount > 0 (and a type of the
\* enum and a non-empty category).
C23_InvalidInputRejected ==
    /\ [](\A i \in 1..Len(transactions) :
            /\ transactions[i].amount > 0
            /\ transactions[i].type \in TxTypes
            /\ transactions[i].category \notin {"", AbsentStr}
            /\ transactions[i].date # AbsentNum)
    /\ [][\A data \in AnyBodies :
            /\ ((InvalidField(data) \/ MissingField(data))
                  /\ (AddTransaction(data) \/ AddTransactionRejected(data)))
                => (transactions' = transactions /\ txStatus' \notin {200, 201})
            /\ (InvalidField(data)
                  /\ \E id \in TxIds :
                        UpdateTransaction(id, data) \/ UpdateTransactionRejected(id, data))
                => (transactions' = transactions /\ txStatus' \notin {200, 201})]_vars

\* C23, its case: an update with an invalid field was refused while a
\* transaction was stored
C23_UpdateRefused ==
    /\ txOp = "rejected"
    /\ txStatus = 400
    /\ Len(transactions) > 0

\* C24: the CSV export has the header Date,Description,Withdrawals,Deposits,
\* Balance, its rows ascend by date, and every row has exactly one of
\* Withdrawals and Deposits filled in.
C24_StatementFormat ==
    LET csv == GetCSVContent IN
    /\ csv.headers = <<"Date", "Description", "Withdrawals", "Deposits", "Balance">>
    /\ \A i, j \in 1..Len(csv.rows) : i < j => csv.rows[i][1] <= csv.rows[j][1]
    /\ \A i \in 1..Len(csv.rows) : (csv.rows[i][3] = "") # (csv.rows[i][4] = "")

\* C25: the balance cell of every row of the CSV export is the income minus
\* expense sum of the rows up to it in date order, and that of the last row
\* is the current balance.
C25_LastRowIsBalance ==
    LET csv == GetCSVContent
        sorted == SortedByDate(transactions) IN
    /\ Len(csv.rows) = Len(sorted)
    /\ \A i \in 1..Len(csv.rows) :
          csv.rows[i][5] = ToFixed(SumOfType(SubSeq(sorted, 1, i), "income")
                                   - SumOfType(SubSeq(sorted, 1, i), "expense"))
    /\ Len(csv.rows) > 0 => csv.rows[Len(csv.rows)][5] = ToFixed(GetCurrentBalance)

\* C26: previousMonthIncome and previousMonthExpenses are the sums over
\* exactly the transactions dated in the calendar month before the current
\* one, whatever day today is.
C26_PreviousMonthSums ==
    /\ PreviousMonthIncome =
          SumOfMonth(clientTransactions, CalendarPreviousMonth(today), "income")
    /\ PreviousMonthExpenses =
          SumOfMonth(clientTransactions, CalendarPreviousMonth(today), "expense")

\* C27: a validation period that ends while the client is authenticated and
\* the server holds its token invalid leaves the client unauthenticated with
\* its stored auth data cleared.
C27_RevalidatedEachPeriod ==
    [][(IntervalTick /\ isAuthenticated /\ ~serverValid)
          => (~isAuthenticated' /\ storedAuth' = NoStoredAuth)]_vars

\* C28: the reversal of a payment is applied at most once. Where every loan
\* starts with remainingAmount = amount and no payment exceeds what remains,
\* a loan's remainingAmount therefore never exceeds, once every request has
\* returned, its amount less the payments still recorded.
C28_ReversedAtMostOnce ==
    Quiescent =>
        \A l \in LoanIds :
            Exists(l) => loans[l].remaining + Paid(l) <= loans[l].amount

\* C29: once the load and the add in flight have both finished, the
\* client's list holds every transaction it added.
C29_AddedStaysListed ==
    (~loadData.pending /\ addReply = <<>>) =>
        \A t \in Records(transactions) : t \in Records(clientTransactions)

\* C30: revoking the device of one browser leaves the tokens of the other
\* browsers valid: whenever revokeDevice completes for the device id that a
\* signed-in browser b sends, the token stored in any other browser o
\* validates afterwards if it validated before.
C30_OtherDevicesStayActive ==
    [][\A p \in pending : \A b \in Browsers : \A o \in Browsers \ {b} :
          (/\ RevokeDevice(p)
           /\ p.device = DeviceIdOf(b, clientNow)
           /\ browserToken[b] # NoToken
           /\ ValidateDeviceToken(browserToken[o]))
          => ValidateDeviceToken(browserToken[o])']_vars

====
